---------------------------- MODULE Spec2Model ----------------------------
(***************************************************************************)
(* UT61E+ multimeter logger: the HID framing (send_command,               *)
(* read_response), the payload decode (parse_display_ascii, parse_mode,   *)
(* parse_unit, the flag bytes), the CLI poll loop of src/main.rs and the  *)
(* poll thread / rendering thread of src/ut61eplus.rs.                    *)
(*                                                                         *)
(* Conventions.  A byte is a number 0..255; a buffer, payload or report   *)
(* is a sequence of bytes (1-indexed here, 0-indexed in the source, so    *)
(* source index i is element i+1).  A string is a sequence of Unicode     *)
(* code points when it is computed from bytes (the display text), and a   *)
(* TLA+ string when it is one of the source's literals.  In a literal,    *)
(* every non-ASCII character of the source is written U+XXXX (its code    *)
(* point), so that "Resistance U+2126" is the source's "Resistance " plus *)
(* the OHM SIGN, and "kU+03A9" is "k" plus GREEK CAPITAL LETTER OMEGA.    *)
(***************************************************************************)
EXTENDS Integers, Sequences, FiniteSets, TLC

Min(a, b) == IF a <= b THEN a ELSE b

Max(a, b) == IF a >= b THEN a ELSE b

Byte == 0..255

\* let mut buf = [0u8; 64];
BufSize == 64

\* The history window of the plot: if buf.len() > 200 { buf.remove(0); }
HistoryCap == 200

\* const GET_MEASUREMENT: [u8; 6]
GET_MEASUREMENT == <<171, 205, 3, 94, 1, 217>>

\* Option<T>
None == [some |-> FALSE]

Some(v) == [some |-> TRUE, v |-> v]

(***************************************************************************)
(* The decode tables.                                                      *)
(***************************************************************************)

\* The variant of parse_mode with 19 codes: the arm 20 => "NCV" left out.
parse_mode_without_ncv(mode) ==
    CASE mode = 0  -> "V_AC"
      [] mode = 24 -> "V_AC_LPF"
      [] mode = 2  -> "V_DC"
      [] mode = 25 -> "V_AC_DC"
      [] mode = 1  -> "mV_AC"
      [] mode = 3  -> "mV_DC"
      [] mode = 6  -> "Resistance U+2126"
      [] mode = 7  -> "Continuity U+1F56A"
      [] mode = 8  -> "Diode U+1CC0F"
      [] mode = 9  -> "Capacitance U+1CC13"
      [] mode = 4  -> "Hz"
      [] mode = 5  -> "%"
      [] mode = 18 -> "Transistor gain U+1CC10 U+03B2 hFE"
      [] mode = 12 -> "U+03BCA_DC"
      [] mode = 13 -> "U+03BCA_AC"
      [] mode = 14 -> "mA_DC"
      [] mode = 15 -> "mA_AC"
      [] mode = 16 -> "A_DC"
      [] mode = 17 -> "A_AC"
      [] OTHER     -> "?"

\* fn parse_mode(mode: u8) -> &'static str          (src/ut61eplus.rs)
parse_mode(mode) ==
    CASE mode = 0  -> "V_AC"
      [] mode = 24 -> "V_AC_LPF"
      [] mode = 2  -> "V_DC"
      [] mode = 25 -> "V_AC_DC"
      [] mode = 1  -> "mV_AC"
      [] mode = 3  -> "mV_DC"
      [] mode = 6  -> "Resistance U+2126"
      [] mode = 7  -> "Continuity U+1F56A"
      [] mode = 8  -> "Diode U+1CC0F"
      [] mode = 9  -> "Capacitance U+1CC13"
      [] mode = 4  -> "Hz"
      [] mode = 5  -> "%"
      [] mode = 18 -> "Transistor gain U+1CC10 U+03B2 hFE"
      [] mode = 12 -> "U+03BCA_DC"
      [] mode = 13 -> "U+03BCA_AC"
      [] mode = 14 -> "mA_DC"
      [] mode = 15 -> "mA_AC"
      [] mode = 16 -> "A_DC"
      [] mode = 17 -> "A_AC"
      [] mode = 20 -> "NCV"
      [] OTHER     -> "?"

\* fn parse_mode(mode: u8) -> &'static str          (src/main.rs)
main_parse_mode(mode) ==
    CASE mode = 0  -> "V_AC"
      [] mode = 24 -> "V_AC_LPF"
      [] mode = 2  -> "V_DC"
      [] mode = 25 -> "V_AC_DC"
      [] mode = 1  -> "mV_AC"
      [] mode = 3  -> "mV_DC"
      [] mode = 6  -> "Resistance U+2126"
      [] mode = 7  -> "Continuity U+1F56A"
      [] mode = 8  -> "Diode U+1CC0F"
      [] mode = 9  -> "Capacitance U+1CC13"
      [] mode = 4  -> "Hz"
      [] mode = 5  -> "%"
      [] mode = 18 -> "Transistor gain U+1CC10 U+03B2 hFE"
      [] mode = 12 -> "U+03BCA_DC"
      [] mode = 13 -> "U+03BCA_AC"
      [] mode = 14 -> "mA_DC"
      [] mode = 15 -> "mA_AC"
      [] mode = 16 -> "A_DC"
      [] mode = 17 -> "A_AC"
      [] mode = 20 -> "NCV"
      [] OTHER     -> "?"

\* fn parse_unit(mode: u8, range: u8) -> &'static str   (src/ut61eplus.rs:
\* range patterns 0x30..=0x33 and or-patterns 12 | 13)
parse_unit(mode, range) ==
    CASE mode = 0  -> (IF range \in 48..51 THEN "V" ELSE "?")
      [] mode = 24 -> (IF range \in 48..51 THEN "V" ELSE "?")
      [] mode = 2  -> (IF range \in 48..51 THEN "V" ELSE "?")
      [] mode = 25 -> (IF range \in 48..51 THEN "V" ELSE "?")
      [] mode = 1  -> (IF range = 48 THEN "mV" ELSE "?")
      [] mode = 3  -> (IF range = 48 THEN "mV" ELSE "?")
      [] mode = 6  -> (CASE range = 48      -> "U+03A9"
                         [] range \in 49..51 -> "kU+03A9"
                         [] range \in 52..54 -> "MU+03A9"
                         [] OTHER            -> "?")
      [] mode = 7  -> (IF range \in 48..54 THEN "U+03A9" ELSE "?")
      [] mode = 8  -> (IF range = 48 THEN "V" ELSE "?")
      [] mode = 9  -> (CASE range \in 48..49 -> "nF"
                         [] range \in 50..52 -> "U+03BCF"
                         [] range \in 53..54 -> "mF"
                         [] OTHER            -> "?")
      [] mode = 4  -> (CASE range \in 48..49 -> "Hz"
                         [] range \in 50..52 -> "kHz"
                         [] range \in 53..55 -> "MHz"
                         [] OTHER            -> "?")
      [] mode = 5  -> (IF range = 48 THEN "%" ELSE "?")
      [] mode = 18 -> (IF range = 48 THEN "U+03B2" ELSE "?")
      [] mode \in {12, 13} -> (IF range \in 48..49 THEN "U+03BCA" ELSE "?")
      [] mode \in {14, 15} -> (IF range \in 48..49 THEN "mA" ELSE "?")
      [] mode \in {16, 17} -> (IF range = 49 THEN "A" ELSE "?")
      [] mode = 20 -> (IF range = 48 THEN "NCV" ELSE "?")
      [] OTHER     -> "?"

\* The variant of main_parse_unit whose arm 0x33 of mode 6 gives the
\* mega-ohm unit of the arm below it.
main_parse_unit_0x33_mega(mode, range) ==
    IF mode = 6 /\ range = 51 THEN "MU+03A9" ELSE parse_unit(mode, range)

\* fn parse_unit(mode: u8, range: u8) -> &'static str   (src/main.rs: one
\* arm per range code, one outer arm per mode)
main_parse_unit(mode, range) ==
    CASE mode = 0  -> (CASE range = 48 -> "V" [] range = 49 -> "V"
                         [] range = 50 -> "V" [] range = 51 -> "V"
                         [] OTHER -> "?")
      [] mode = 24 -> (CASE range = 48 -> "V" [] range = 49 -> "V"
                         [] range = 50 -> "V" [] range = 51 -> "V"
                         [] OTHER -> "?")
      [] mode = 2  -> (CASE range = 48 -> "V" [] range = 49 -> "V"
                         [] range = 50 -> "V" [] range = 51 -> "V"
                         [] OTHER -> "?")
      [] mode = 25 -> (CASE range = 48 -> "V" [] range = 49 -> "V"
                         [] range = 50 -> "V" [] range = 51 -> "V"
                         [] OTHER -> "?")
      [] mode = 1  -> (CASE range = 48 -> "mV" [] OTHER -> "?")
      [] mode = 3  -> (CASE range = 48 -> "mV" [] OTHER -> "?")
      [] mode = 6  -> (CASE range = 48 -> "U+03A9"
                         [] range = 49 -> "kU+03A9"
                         [] range = 50 -> "kU+03A9"
                         [] range = 51 -> "kU+03A9"
                         [] range = 52 -> "MU+03A9"
                         [] range = 53 -> "MU+03A9"
                         [] range = 54 -> "MU+03A9"
                         [] OTHER -> "?")
      [] mode = 7  -> (CASE range \in 48..54 -> "U+03A9" [] OTHER -> "?")
      [] mode = 8  -> (CASE range = 48 -> "V" [] OTHER -> "?")
      [] mode = 9  -> (CASE range = 48 -> "nF"
                         [] range = 49 -> "nF"
                         [] range = 50 -> "U+03BCF"
                         [] range = 51 -> "U+03BCF"
                         [] range = 52 -> "U+03BCF"
                         [] range = 53 -> "mF"
                         [] range = 54 -> "mF"
                         [] OTHER -> "?")
      [] mode = 4  -> (CASE range = 48 -> "Hz"
                         [] range = 49 -> "Hz"
                         [] range = 50 -> "kHz"
                         [] range = 51 -> "kHz"
                         [] range = 52 -> "kHz"
                         [] range = 53 -> "MHz"
                         [] range = 54 -> "MHz"
                         [] range = 55 -> "MHz"
                         [] OTHER -> "?")
      [] mode = 5  -> (CASE range = 48 -> "%" [] OTHER -> "?")
      [] mode = 18 -> (CASE range = 48 -> "U+03B2" [] OTHER -> "?")
      [] mode = 12 -> (CASE range = 48 -> "U+03BCA" [] range = 49 -> "U+03BCA"
                         [] OTHER -> "?")
      [] mode = 13 -> (CASE range = 48 -> "U+03BCA" [] range = 49 -> "U+03BCA"
                         [] OTHER -> "?")
      [] mode = 14 -> (CASE range = 48 -> "mA" [] range = 49 -> "mA"
                         [] OTHER -> "?")
      [] mode = 15 -> (CASE range = 48 -> "mA" [] range = 49 -> "mA"
                         [] OTHER -> "?")
      [] mode = 16 -> (CASE range = 49 -> "A" [] OTHER -> "?")
      [] mode = 17 -> (CASE range = 49 -> "A" [] OTHER -> "?")
      [] mode = 20 -> (CASE range = 48 -> "NCV" [] OTHER -> "?")
      [] OTHER     -> "?"

(***************************************************************************)
(* The transport framer.                                                   *)
(***************************************************************************)

\* send_command: buf.push(cmd.len() as u8); buf.extend_from_slice(cmd);
\* the bytes handed to dev.write.
send_command(cmd) == <<Len(cmd) % 256>> \o cmd

\* dev.read(&mut buf) with buf: [u8; 64]: the first n <= 64 bytes of the
\* report the device delivers (a longer report is cut to the buffer).
hid_read(report) == SubSeq(report, 1, Min(Len(report), BufSize))

\* The variant of slice_payload that a forgotten "- 2" would give.
slice_payload_keep_checksum(data, payload_len) ==
    SubSeq(data, 4, 3 + payload_len)

\* data[3..3 + payload_len - 2].to_vec(), for start <= end <= data.len()
slice_payload(data, payload_len) == SubSeq(data, 4, 3 + payload_len - 2)

\* The variant of frame_accepted without the header test.
frame_accepted_no_header(data) ==
    /\ Len(data) > 3
    /\ Len(data) >= 3 + data[3]

\* if data.len() > 3 && data[0] == 0xAB && data[1] == 0xCD { .. if
\* data.len() >= 3 + payload_len { ..: the two nested conditions under
\* which read_response reaches its return Some(..).
frame_accepted(data) ==
    /\ Len(data) > 3
    /\ data[1] = 171
    /\ data[2] = 205
    /\ Len(data) >= 3 + data[3]

\* The variant of read_iteration that returns None on a report it does not
\* accept instead of reading again.
read_iteration_no_retry(rd) ==
    IF ~rd.ok \/ Len(rd.bytes) = 0
    THEN [kind |-> "none", payload |-> <<>>]
    ELSE LET data == SubSeq(rd.bytes, 2, Len(rd.bytes))
         IN IF frame_accepted(data)
            THEN IF 3 + data[3] - 2 < 3
                 THEN [kind |-> "panic", payload |-> <<>>]
                 ELSE [kind |-> "some",
                       payload |-> slice_payload(data, data[3])]
            ELSE [kind |-> "none", payload |-> <<>>]

\* One iteration of the loop of read_response on the outcome rd of
\* dev.read: rd.ok is Ok/Err, rd.bytes the n bytes read.
\*   "some"     return Some(payload)
\*   "none"     return None            (the arm _ => return None)
\*   "continue" the match arm ends without a return: the loop reads again
\*   "panic"    the slice data[3..3 + payload_len - 2] has start > end
read_iteration(rd) ==
    IF ~rd.ok \/ Len(rd.bytes) = 0
    THEN [kind |-> "none", payload |-> <<>>]
    ELSE LET data == SubSeq(rd.bytes, 2, Len(rd.bytes))
         IN IF frame_accepted(data)
            THEN IF 3 + data[3] - 2 < 3
                 THEN [kind |-> "panic", payload |-> <<>>]
                 ELSE [kind |-> "some",
                       payload |-> slice_payload(data, data[3])]
            ELSE [kind |-> "continue", payload |-> <<>>]

(***************************************************************************)
(* The display text.                                                       *)
(***************************************************************************)

IsCont(b) == b \in 128..191

\* String::from_utf8_lossy on the head of s: the code point decoded and the
\* number of bytes it takes; an ill-formed sequence gives U+FFFD (65533)
\* for its maximal valid prefix (at least one byte).
Utf8Step(s) ==
    LET b == s[1]
        n == Len(s)
        lo2 == IF b = 224 THEN 160 ELSE IF b = 240 THEN 144 ELSE 128
        hi2 == IF b = 237 THEN 159 ELSE IF b = 244 THEN 143 ELSE 191
        ok2 == n >= 2 /\ s[2] \in lo2..hi2
        ok3 == ok2 /\ n >= 3 /\ IsCont(s[3])
        ok4 == ok3 /\ n >= 4 /\ IsCont(s[4])
    IN CASE b < 128 -> [cp |-> b, used |-> 1]
         [] b \in 194..223 ->
              IF ok2 THEN [cp |-> (b - 192) * 64 + (s[2] - 128), used |-> 2]
              ELSE [cp |-> 65533, used |-> 1]
         [] b \in 224..239 ->
              IF ok3 THEN [cp |-> (b - 224) * 4096 + (s[2] - 128) * 64
                                  + (s[3] - 128), used |-> 3]
              ELSE [cp |-> 65533, used |-> IF ok2 THEN 2 ELSE 1]
         [] b \in 240..244 ->
              IF ok4 THEN [cp |-> (b - 240) * 262144 + (s[2] - 128) * 4096
                                  + (s[3] - 128) * 64 + (s[4] - 128),
                           used |-> 4]
              ELSE [cp |-> 65533,
                    used |-> IF ok3 THEN 3 ELSE IF ok2 THEN 2 ELSE 1]
         [] OTHER -> [cp |-> 65533, used |-> 1]

RECURSIVE from_utf8_lossy(_)
from_utf8_lossy(s) ==
    IF s = <<>> THEN <<>>
    ELSE LET st == Utf8Step(s)
         IN <<st.cp>> \o from_utf8_lossy(SubSeq(s, st.used + 1, Len(s)))

\* .replace(' ', "")
strip_spaces(text) == SelectSeq(text, LAMBDA c : c # 32)

\* The variant of parse_display_ascii that takes payload.get(2..7).
parse_display_ascii_5_bytes(payload) ==
    IF Len(payload) >= 7
    THEN strip_spaces(from_utf8_lossy(SubSeq(payload, 3, 7)))
    ELSE <<63>>

\* fn parse_display_ascii(payload: &[u8]) -> String: payload.get(2..9) is
\* None when the payload has fewer than 9 bytes, and then the text is "?".
parse_display_ascii(payload) ==
    IF Len(payload) >= 9
    THEN strip_spaces(from_utf8_lossy(SubSeq(payload, 3, 9)))
    ELSE <<63>>

(***************************************************************************)
(* display.parse::<f32>(): the grammar of <f32 as FromStr>,                *)
(*   Float  ::= Sign? ( 'inf' | 'infinity' | 'nan' | Number )              *)
(*   Number ::= ( Digit+ | Digit+ '.' Digit* | Digit* '.' Digit+ ) Exp?    *)
(*   Exp    ::= 'e' Sign? Digit+            (letters in either case)       *)
(* The value of a Number is kept as the decimal it denotes, neg, mant and  *)
(* exp standing for (-1)^neg * mant * 10^exp with mant free of trailing    *)
(* zeros; the rounding of that decimal to the nearest f32 is not modelled. *)
(***************************************************************************)

IsDigit(c) == c \in 48..57

AllDigits(s) == \A i \in 1..Len(s) : IsDigit(s[i])

Lower(c) == IF c \in 65..90 THEN c + 32 ELSE c

RECURSIVE DigitsVal(_)
DigitsVal(s) ==
    IF s = <<>> THEN 0
    ELSE DigitsVal(SubSeq(s, 1, Len(s) - 1)) * 10 + (s[Len(s)] - 48)

\* The first index of s holding a member of cs, or 0.
IndexOf(s, cs) ==
    IF \E i \in 1..Len(s) : s[i] \in cs
    THEN CHOOSE i \in 1..Len(s) :
            s[i] \in cs /\ \A j \in 1..(i - 1) : s[j] \notin cs
    ELSE 0

RECURSIVE StripZeros(_, _)
StripZeros(m, e) ==
    IF m # 0 /\ m % 10 = 0 THEN StripZeros(m \div 10, e + 1)
    ELSE [mant |-> m, exp |-> IF m = 0 THEN 0 ELSE e]

Num(neg, m, e) ==
    LET n == StripZeros(m, e)
    IN [kind |-> "num", neg |-> neg, mant |-> n.mant, exp |-> n.exp]

parse_f32(text) ==
    LET signed == text # <<>> /\ text[1] \in {43, 45}
        neg == text # <<>> /\ text[1] = 45
        body == IF signed THEN Tail(text) ELSE text
        low == [i \in 1..Len(body) |-> Lower(body[i])]
        epos == IndexOf(low, {101})
        mpart == IF epos = 0 THEN body ELSE SubSeq(body, 1, epos - 1)
        epart == IF epos = 0 THEN <<>> ELSE SubSeq(body, epos + 1, Len(body))
        dot == IndexOf(mpart, {46})
        ip == IF dot = 0 THEN mpart ELSE SubSeq(mpart, 1, dot - 1)
        fp == IF dot = 0 THEN <<>> ELSE SubSeq(mpart, dot + 1, Len(mpart))
        esigned == epart # <<>> /\ epart[1] \in {43, 45}
        edigits == IF esigned THEN Tail(epart) ELSE epart
        eval == IF esigned /\ epart[1] = 45 THEN 0 - DigitsVal(edigits)
                ELSE DigitsVal(edigits)
    IN IF low \in {<<105, 110, 102>>,
                   <<105, 110, 102, 105, 110, 105, 116, 121>>}
       THEN Some([kind |-> "inf", neg |-> neg, mant |-> 0, exp |-> 0])
       ELSE IF low = <<110, 97, 110>>
       THEN Some([kind |-> "nan", neg |-> neg, mant |-> 0, exp |-> 0])
       ELSE IF /\ AllDigits(ip) /\ AllDigits(fp) /\ Len(ip) + Len(fp) > 0
               /\ (epos = 0 \/ (edigits # <<>> /\ AllDigits(edigits)))
       THEN Some(Num(neg, DigitsVal(ip \o fp),
                     (IF epos = 0 THEN 0 ELSE eval) - Len(fp)))
       ELSE None

(***************************************************************************)
(* The measurement decoder.                                                *)
(***************************************************************************)

\* payload.get(i).copied().unwrap_or(0), i a 0-based index
get_or0(payload, i) == IF i < Len(payload) THEN payload[i + 1] ELSE 0

\* usize::saturating_sub
saturating_sub(a, b) == Max(a - b, 0)

\* The index of the auto/manual byte: payload.len().saturating_sub(2)
auto_manual_index(len) == saturating_sub(len, 2)

\* The variant of flags_index that reads the auto/manual byte's position.
flags_index_same_as_auto(len) == saturating_sub(len, 2)

\* The index of the flag byte: payload.len().saturating_sub(3)
flags_index(len) == saturating_sub(len, 3)

\* match auto_manual_byte { 48 => "AUTO", 52 => "MANUAL", _ => "?" }
auto_manual_of(b) ==
    CASE b = 48 -> "AUTO"
      [] b = 52 -> "MANUAL"
      [] OTHER  -> "?"

\* if flags_byte & 0x01 != 0 { "REL" } else { "" }
rel_of(f) == IF f % 2 # 0 THEN "REL" ELSE ""

\* if flags_byte & 0x02 != 0 { "HOLD" } else { "" }
hold_of(f) == IF (f \div 2) % 2 # 0 THEN "HOLD" ELSE ""

\* The variant of minmax_of with MAX on 57 (0x39) instead of 56 (0x38).
minmax_of_57(f) ==
    CASE f = 57 -> "MAX"
      [] f = 52 -> "MIN"
      [] OTHER  -> ""

\* match flags_byte { 56 => "MAX", 52 => "MIN", _ => "" }
minmax_of(f) ==
    CASE f = 56 -> "MAX"
      [] f = 52 -> "MIN"
      [] OTHER  -> ""

\* Ut61ePlus::get_measurement from `let display` on: None when the display
\* text does not parse as an f32 (the `?` on display.parse::<f32>().ok()).
decode_measurement(payload) ==
    LET display == parse_display_ascii(payload)
        value == parse_f32(display)
        mode == get_or0(payload, 0)
        range == get_or0(payload, 1)
        auto_manual_byte == get_or0(payload, auto_manual_index(Len(payload)))
        flags_byte == get_or0(payload, flags_index(Len(payload)))
    IN IF ~value.some THEN None
       ELSE Some([value |-> value.v,
                  unit |-> parse_unit(mode, range),
                  mode |-> parse_mode(mode),
                  auto_manual |-> auto_manual_of(auto_manual_byte),
                  rel |-> rel_of(flags_byte),
                  hold |-> hold_of(flags_byte),
                  minmax |-> minmax_of(flags_byte)])

\* The body of `if let Some(payload) = read_response(&dev)` in main of
\* src/main.rs: the fields of the line it prints.  The display text is
\* printed as it is; it is never parsed as a number here.
main_decode_line(payload) ==
    LET display == parse_display_ascii(payload)
        mode == get_or0(payload, 0)
        range == get_or0(payload, 1)
        auto_manual_byte == get_or0(payload, auto_manual_index(Len(payload)))
        flags_byte == get_or0(payload, flags_index(Len(payload)))
    IN [display |-> display,
        unit |-> main_parse_unit(mode, range),
        mode |-> main_parse_mode(mode),
        auto_manual |-> auto_manual_of(auto_manual_byte),
        rel |-> rel_of(flags_byte),
        hold |-> hold_of(flags_byte),
        minmax |-> minmax_of(flags_byte)]

\* The Measurement both run_egui_app and run_egui_app_simulated start with.
InitialMeasurement ==
    [value |-> Num(FALSE, 0, 0), unit |-> "V", mode |-> "V_AC",
     auto_manual |-> "AUTO", rel |-> "", hold |-> "", minmax |-> ""]

\* The variant of evict that drops the newest sample.
evict_newest(buf) ==
    IF Len(buf) > HistoryCap THEN SubSeq(buf, 1, Len(buf) - 1) ELSE buf

\* if buf.len() > 200 { buf.remove(0); }
evict(buf) == IF Len(buf) > HistoryCap THEN Tail(buf) ELSE buf

(***************************************************************************)
(* The state.                                                              *)
(***************************************************************************)
VARIABLES
    consumer,    \* which loop runs: "main" (fn main of src/main.rs), "cli"
                 \* (run_cli), "gui" (run_egui_app), "sim"
                 \* (run_egui_app_simulated)
    csv,         \* args.csv of src/main.rs
    dev,         \* the device: what its next reads deliver
    pc,          \* position of the poll loop / poll thread
    wire,        \* the bytes of the last dev.write
    reads,       \* dev.read calls since the last dev.write (counted up to
                 \* MaxReads)
    rd,          \* outcome of the last dev.read: [ok, bytes]
    resp,        \* what the last iteration of read_response did
    got,         \* this cycle's result: get_measurement()'s Option in
                 \* src/ut61eplus.rs, the printed line in src/main.rs
    stdout,      \* [n |-> lines printed modulo MaxLines, last |-> last line]
    values,      \* Arc<Mutex<Vec<f32>>>: the history
    latest,      \* Arc<Mutex<Measurement>>: the published measurement
    valuesLock,  \* holder of the values mutex: "free", "poll", "render"
    measLock,    \* holder of the measurement mutex
    rpc,         \* position of PlotApp::update, "off" without a GUI
    arrived,     \* history variable: every value the GUI's poll thread got
                 \* (get_measurement's Some, or the simulated sample), in
                 \* order
    tick,        \* t of run_egui_app_simulated
    tmode,       \* table lookup: the mode byte
    trange,      \* table lookup: the range byte
    tout         \* table lookup: the results

vars == <<consumer, csv, dev, pc, wire, reads, rd, resp, got, stdout, values,
          latest, valuesLock, measLock, rpc, arrived, tick, tmode, trange,
          tout>>

pollVars == <<dev, pc, wire, reads, rd, resp, got, stdout>>

guiVars == <<values, latest, valuesLock, measLock, rpc, arrived, tick>>

tableVars == <<tmode, trange, tout>>

(***************************************************************************)
(* Bounds of the model.                                                    *)
(***************************************************************************)

\* Longest payload a device frame is built from.
MaxPayloadLen == 61

\* Longest tail of bytes after the 7 display bytes of a built payload.
MaxTail == 5

\* Samples a streaming device (or the simulation) delivers.
MaxSamples == 203

\* The counters reads and stdout.n count up to / modulo these.
MaxReads == 3

MaxLines == 4

(***************************************************************************)
(* The device side: the reports the meter can deliver.                     *)
(***************************************************************************)

\* The inbound frame around a payload: [reportLength][0xAB][0xCD]
\* [payloadLength][payload][checksum x2], payloadLength counting the payload
\* and the two checksum bytes (what read_response subtracts).
Frame(payload, rl, ck) ==
    <<rl, 171, 205, (Len(payload) + 2) % 256>> \o payload \o ck

Ok(bytes) == [ok |-> TRUE, bytes |-> bytes]

Err == [ok |-> FALSE, bytes |-> <<>>]

PatternPayload(len, seed, step) ==
    [i \in 1..len |-> (seed + (i - 1) * step) % 256]

Checksums == {<<0, 0>>, <<171, 205>>}

\* Payloads of every length 0..MaxPayloadLen, two byte patterns each.
PatternPayloads ==
    {PatternPayload(len, sd[1], sd[2]) :
        len \in 0..MaxPayloadLen, sd \in {<<48, 1>>, <<200, 7>>}}

\* 7-byte display fields: " 12.34 ", "  -0.5 ", all spaces, "   0.L " (the
\* overload text), "1.5E-3 ", "12.34" followed by NUL and "0", " 4.444 ".
Displays ==
    {<<32, 49, 50, 46, 51, 52, 32>>,
     <<32, 32, 45, 48, 46, 53, 32>>,
     <<32, 32, 32, 32, 32, 32, 32>>,
     <<32, 32, 32, 48, 46, 76, 32>>,
     <<49, 46, 53, 69, 45, 51, 32>>,
     <<49, 50, 46, 51, 52, 0, 48>>,
     <<32, 52, 46, 52, 52, 52, 32>>}

RECURSIVE Tails(_)
Tails(n) ==
    IF n = 0 THEN {<<>>}
    ELSE LET shorter == Tails(n - 1)
         IN shorter \cup {Append(t, b) : t \in {u \in shorter : Len(u) = n - 1},
                                         b \in {48, 52}}

\* mode, range, the display field and a tail of 0..MaxTail bytes of 48/52.
DisplayPayloads ==
    {<<6, 49>> \o d \o t : d \in Displays, t \in Tails(MaxTail)}

\* A 14-byte payload as the meter sends it: mode, range, 7 display bytes,
\* 2 bar-graph bytes, then the flag byte, the auto/manual byte and a last
\* byte.
MeterPayload(mode, range, display, flags, auto) ==
    <<mode, range>> \o display \o <<48, 48, flags, auto, 48>>

FlagPayloads ==
    {MeterPayload(6, 49, <<32, 49, 50, 46, 51, 52, 32>>, f, a) :
        f \in Byte, a \in {48, 52, 7}}

\* The payload of the spec's end-to-end example.
ExamplePayload == <<6, 49, 49, 50, 46, 51, 52, 0, 48, 48>>

GoodFrame == Frame(MeterPayload(2, 48, <<32, 32, 49, 46, 53, 32, 32>>, 0, 48),
                   19, <<0, 0>>)

\* Reports read_response does not take a payload from: too short, a bad
\* header, a declared length beyond the bytes read.
MalformedReports ==
    {<<5>>, <<5, 171>>, <<5, 171, 205>>, <<5, 171, 205, 2>>,
     <<5, 171, 204, 2, 0, 0>>, <<5, 170, 205, 2, 0, 0>>,
     <<5, 171, 205, 9, 1, 2, 3>>, <<5, 171, 205, 255, 1, 2, 3>>,
     <<5, 0, 0, 0, 0, 0>>}

\* Reports with a valid header and a declared length below the 2 checksum
\* bytes.
TinyLengthReports == {<<5, 171, 205, 0, 0, 0>>, <<5, 171, 205, 1, 7, 0>>}

\* What a scripted device delivers, read by read.
Scripts ==
    {<<Ok(Frame(p, Len(p) + 5, ck))>> : p \in PatternPayloads, ck \in Checksums}
    \cup {<<Ok(Frame(p, 0, <<1, 2>>))>> : p \in DisplayPayloads}
    \cup {<<Ok(Frame(p, 19, <<3, 4>>))>> : p \in FlagPayloads}
    \cup {<<Ok(Frame(ExamplePayload, 15, <<0, 0>>))>>}
    \cup {<<Ok(m), x>> : m \in MalformedReports \cup TinyLengthReports,
                         x \in {Ok(GoodFrame), Ok(<<>>), Err}}
    \cup {<<Ok(GoodFrame), Ok(GoodFrame)>>, <<Ok(<<>>), Ok(GoodFrame)>>,
          <<Err, Ok(GoodFrame)>>}

RECURSIVE Digits(_)
Digits(n) == IF n < 10 THEN <<48 + n>>
             ELSE Digits(n \div 10) \o <<48 + (n % 10)>>

PadLeft(s, width) == [i \in 1..(width - Len(s)) |-> 32] \o s

\* The k-th sample of a streaming device: the display shows k/10.
SamplePayload(k) ==
    MeterPayload(2, 48 + (k % 4),
                 PadLeft(Digits(k \div 10) \o <<46>> \o Digits(k % 10), 7),
                 k % 4, IF k % 2 = 0 THEN 48 ELSE 52)

BlankPayload == MeterPayload(2, 48, <<32, 32, 32, 32, 32, 32, 32>>, 0, 48)

\* The outcomes the next dev.read can have, each with the device after it.
DevNext(d) ==
    IF d.stream
    THEN IF d.k >= MaxSamples THEN {}
         ELSE {[rd |-> Ok(Frame(SamplePayload(d.k), 19, <<0, 0>>)),
                dev |-> [d EXCEPT !.k = d.k + 1]]}
              \cup {[rd |-> x, dev |-> d] :
                      x \in {Ok(Frame(BlankPayload, 19, <<0, 0>>)),
                             Ok(<<5, 171, 204, 2, 0, 0>>), Ok(<<>>)}}
    ELSE IF d.items = <<>> THEN {}
         ELSE {[rd |-> Head(d.items), dev |-> [d EXCEPT !.items = Tail(d.items)]]}

(***************************************************************************)
(* Initial states.                                                         *)
(***************************************************************************)

Idle == [kind |-> "idle", payload |-> <<>>]

Scripted(items) == [stream |-> FALSE, items |-> items, k |-> 0]

Streaming == [stream |-> TRUE, items |-> <<>>, k |-> 0]

\* What is common to every start: nothing written or read yet, the header
\* line printed, the shared state as run_egui_app constructs it.
InitCommon ==
    /\ pc = "send"
    /\ wire = <<>>
    /\ reads = 0
    /\ rd = Err
    /\ resp = Idle
    /\ got = None
    /\ stdout = [n |-> 1, last |-> [kind |-> "header"]]
    /\ values = <<>>
    /\ latest = InitialMeasurement
    /\ valuesLock = "free"
    /\ measLock = "free"
    /\ rpc = IF consumer \in {"gui", "sim"} THEN "side" ELSE "off"
    /\ arrived = <<>>
    /\ tick = 0
    /\ tout = None

\* A device that plays a script of reports, under each of the loops.
Init ==
    /\ consumer \in {"main", "cli", "gui", "sim"}
    /\ csv \in (IF consumer = "main" THEN BOOLEAN ELSE {FALSE})
    /\ dev \in (IF consumer = "sim" THEN {Scripted(<<>>)}
                ELSE {Scripted(sc) : sc \in Scripts})
    /\ tmode = 0
    /\ trange = 0
    /\ InitCommon

\* A device that streams samples, under the GUI (or the simulation).
InitGui ==
    /\ consumer \in {"gui", "sim"}
    /\ csv = FALSE
    /\ dev = Streaming
    /\ tmode = 0
    /\ trange = 0
    /\ InitCommon

\* The table lookups, for every mode byte and range byte.
InitTables ==
    /\ consumer = "main"
    /\ csv = FALSE
    /\ dev = Scripted(<<>>)
    /\ tmode \in Byte
    /\ trange \in Byte
    /\ InitCommon

(***************************************************************************)
(* The poll cycle.                                                         *)
(***************************************************************************)

\* println!
println(out, line) == [n |-> (out.n + 1) % MaxLines, last |-> line]

\* Mutex::lock returns once no other thread holds the mutex.
can_lock(holder) == holder = "free"

\* send_command(&dev, &GET_MEASUREMENT): dev.write succeeds or fails.  On
\* failure the `?` of main returns the error from main (the process ends),
\* and the `.ok()?` of get_measurement returns None to its loop.
Send ==
    /\ pc = "send"
    /\ consumer # "sim"
    /\ \E ok \in BOOLEAN :
         /\ wire' = IF ok THEN send_command(GET_MEASUREMENT) ELSE wire
         /\ reads' = IF ok THEN 0 ELSE reads
         /\ pc' = IF ok THEN "read"
                  ELSE IF consumer = "main" THEN "exited" ELSE "sleep"
    /\ resp' = Idle
    /\ got' = None
    /\ UNCHANGED <<consumer, csv, dev, rd, stdout, guiVars, tableVars>>

\* What the loop does with the payload read_response returned.
OnPayload(payload) ==
    IF consumer = "main"
    THEN LET line == main_decode_line(payload)
         IN /\ got' = Some(line)
            /\ arrived' = arrived
            /\ stdout' = println(stdout, [kind |-> "line", csv |-> csv,
                                          fields |-> line])
            /\ pc' = "sleep"
    ELSE LET m == decode_measurement(payload)
         IN /\ got' = m
            /\ arrived' = IF consumer = "gui" /\ m.some
                          THEN Append(arrived, m.v.value) ELSE arrived
            /\ stdout' = IF consumer = "cli" /\ m.some
                         THEN println(stdout, [kind |-> "value",
                                               value |-> m.v.value])
                         ELSE stdout
            /\ pc' = IF consumer = "gui" /\ m.some THEN "lockvalues"
                     ELSE "sleep"

\* One dev.read of the loop of read_response and what follows from it up
\* to the next blocking call.
Read ==
    /\ pc = "read"
    /\ \E nx \in DevNext(dev) :
         LET r == read_iteration([ok |-> nx.rd.ok,
                                  bytes |-> hid_read(nx.rd.bytes)])
         IN /\ dev' = nx.dev
            /\ rd' = nx.rd
            /\ resp' = r
            /\ reads' = Min(reads + 1, MaxReads)
            /\ CASE r.kind = "continue" ->
                      /\ pc' = "read"
                      /\ UNCHANGED <<got, stdout, arrived>>
                 [] r.kind = "panic" ->
                      /\ pc' = "panicked"
                      /\ UNCHANGED <<got, stdout, arrived>>
                 [] r.kind = "none" ->
                      /\ pc' = "sleep"
                      /\ got' = None
                      /\ arrived' = arrived
                      /\ stdout' = IF consumer = "main" /\ ~csv
                                   THEN println(stdout, [kind |-> "noresponse"])
                                   ELSE stdout
                 [] r.kind = "some" -> OnPayload(r.payload)
    /\ UNCHANGED <<consumer, csv, wire, values, latest, valuesLock, measLock,
                   rpc, tick, tableVars>>

\* thread::sleep(..) at the end of the loop body, then the next iteration.
Sleep ==
    /\ pc = "sleep"
    /\ pc' = "send"
    /\ UNCHANGED <<consumer, csv, dev, wire, reads, rd, resp, got, stdout,
                   guiVars, tableVars>>

(***************************************************************************)
(* The poll thread's publication and the rendering thread.                 *)
(***************************************************************************)

\* The simulated sample of tick t; the sine and the random term are not
\* modelled, the sample is told apart by its tick.
Simulated(t) == Num(FALSE, t, -1)

\* The fields run_egui_app_simulated writes under the measurement lock, t
\* being the tick after `t += 1.0`.
sim_measurement(m, t, simulated) ==
    LET modes == <<"V_AC", "V_DC", "Resistance", "Hz", "%", "A_DC">>
        units == <<"V", "V", "U+03A9", "Hz", "%", "A">>
        mode_idx == (t \div 100) % 6
    IN [value |-> simulated,
        mode |-> IF t % 100 = 0 THEN modes[mode_idx + 1] ELSE m.mode,
        unit |-> IF t % 100 = 0 THEN units[mode_idx + 1] ELSE m.unit,
        auto_manual |-> IF t % 60 < 30 THEN "AUTO" ELSE "MANUAL",
        rel |-> IF t % 50 < 10 THEN "REL" ELSE "",
        hold |-> IF t % 80 < 10 THEN "HOLD" ELSE "",
        minmax |-> IF t % 120 < 10 THEN "MAX"
                   ELSE IF t % 120 > 110 THEN "MIN" ELSE ""]

\* run_egui_app_simulated: let simulated = ..; t += 1.0;
SimTick ==
    /\ pc = "send"
    /\ consumer = "sim"
    /\ tick < MaxSamples
    /\ tick' = tick + 1
    /\ got' = Some([value |-> Simulated(tick)])
    /\ arrived' = Append(arrived, Simulated(tick))
    /\ pc' = "lockvalues"
    /\ UNCHANGED <<consumer, csv, dev, wire, reads, rd, resp, stdout, values,
                   latest, valuesLock, measLock, rpc, tableVars>>

\* let mut buf = values_clone.lock().unwrap();
PollLockValues ==
    /\ pc = "lockvalues"
    /\ can_lock(valuesLock)
    /\ valuesLock' = "poll"
    /\ pc' = "push"
    /\ UNCHANGED <<consumer, csv, dev, wire, reads, rd, resp, got, stdout,
                   values, latest, measLock, rpc, arrived, tick, tableVars>>

\* buf.push(val.value);
PollPush ==
    /\ pc = "push"
    /\ values' = Append(values, got.v.value)
    /\ pc' = "evict"
    /\ UNCHANGED <<consumer, csv, dev, wire, reads, rd, resp, got, stdout,
                   latest, valuesLock, measLock, rpc, arrived, tick,
                   tableVars>>

\* if buf.len() > 200 { buf.remove(0); }
PollEvict ==
    /\ pc = "evict"
    /\ values' = evict(values)
    /\ pc' = "lockmeas"
    /\ UNCHANGED <<consumer, csv, dev, wire, reads, rd, resp, got, stdout,
                   latest, valuesLock, measLock, rpc, arrived, tick,
                   tableVars>>

\* let mut m = measurement_clone.lock().unwrap();   (buf still held)
PollLockMeas ==
    /\ pc = "lockmeas"
    /\ can_lock(measLock)
    /\ measLock' = "poll"
    /\ pc' = "writemeas"
    /\ UNCHANGED <<consumer, csv, dev, wire, reads, rd, resp, got, stdout,
                   values, latest, valuesLock, rpc, arrived, tick, tableVars>>

\* *m = val;  (or the field writes of the simulation), then both guards
\* are dropped at the end of the block.
PollWriteMeas ==
    /\ pc = "writemeas"
    /\ latest' = IF consumer = "sim"
                 THEN sim_measurement(latest, tick, got.v.value)
                 ELSE got.v
    /\ measLock' = "free"
    /\ valuesLock' = "free"
    /\ pc' = "sleep"
    /\ UNCHANGED <<consumer, csv, dev, wire, reads, rd, resp, got, stdout,
                   values, rpc, arrived, tick, tableVars>>

\* PlotApp::update, side panel: self.measurement.lock().unwrap().clone()
\* (the guard is a temporary, dropped at the end of the statement; the
\* clone is a local of the frame).
RenderSide ==
    /\ rpc = "side"
    /\ can_lock(measLock)
    /\ rpc' = "central"
    /\ UNCHANGED <<consumer, csv, pollVars, values, latest, valuesLock,
                   measLock, arrived, tick, tableVars>>

\* PlotApp::update, central panel: the second clone of the measurement.
RenderCentral ==
    /\ rpc = "central"
    /\ can_lock(measLock)
    /\ rpc' = "lockvalues"
    /\ UNCHANGED <<consumer, csv, pollVars, values, latest, valuesLock,
                   measLock, arrived, tick, tableVars>>

\* let values = self.values.lock().unwrap();
RenderLockValues ==
    /\ rpc = "lockvalues"
    /\ can_lock(valuesLock)
    /\ valuesLock' = "render"
    /\ rpc' = "plot"
    /\ UNCHANGED <<consumer, csv, pollVars, values, latest, measLock,
                   arrived, tick, tableVars>>

\* The points are collected from *values and plotted; the guard is dropped
\* when the closure ends, and ctx.request_repaint() brings the next frame.
RenderPlot ==
    /\ rpc = "plot"
    /\ valuesLock' = "free"
    /\ rpc' = "side"
    /\ UNCHANGED <<consumer, csv, pollVars, values, latest, measLock,
                   arrived, tick, tableVars>>

\* parse_mode and parse_unit of both files on one (mode, range).
Lookup ==
    /\ ~tout.some
    /\ tout' = Some([mode |-> parse_mode(tmode),
                     main_mode |-> main_parse_mode(tmode),
                     unit |-> parse_unit(tmode, trange),
                     main_unit |-> main_parse_unit(tmode, trange)])
    /\ UNCHANGED <<consumer, csv, pollVars, guiVars, tmode, trange>>

Next ==
    \/ Send
    \/ Read
    \/ Sleep
    \/ SimTick
    \/ PollLockValues
    \/ PollPush
    \/ PollEvict
    \/ PollLockMeas
    \/ PollWriteMeas
    \/ RenderSide
    \/ RenderCentral
    \/ RenderLockValues
    \/ RenderPlot

Spec == Init /\ [][Next]_vars

SpecGui == InitGui /\ [][Next]_vars

SpecTables == InitTables /\ [][Lookup]_vars

(***************************************************************************)
(* Vocabulary of the properties.                                           *)
(***************************************************************************)

\* The bytes dev.read put into the buffer on the last read.
Received == hid_read(rd.bytes)

\* A read has happened in this cycle (Send resets resp to Idle).
JustRead == resp.kind # "idle"

\* The report is the frame built around payload p, whatever its first byte
\* and its two checksum bytes are.
IsFrameFor(report, p) ==
    /\ Len(report) = Len(p) + 6
    /\ report = Frame(p, report[1],
                      SubSeq(report, Len(report) - 1, Len(report)))

\* The payload a report of frame shape was built around.
BuiltPayload(report) == SubSeq(report, 5, Len(report) - 2)

\* The three rejection conditions on the bytes read, the first byte dropped.
Rejectable(received) ==
    LET rest == SubSeq(received, 2, Len(received))
    IN \/ Len(rest) < 4
       \/ rest[1] # 171
       \/ rest[2] # 205
       \/ Len(rest) < 3 + rest[3]

\* The last read delivered at least one byte and the report is malformed.
MalformedJustRead ==
    /\ JustRead
    /\ rd.ok
    /\ Len(Received) > 0
    /\ Rejectable(Received)

\* The last n elements of s (all of s when it has fewer).
LastN(s, n) == SubSeq(s, Max(1, Len(s) - n + 1), Len(s))

(***************************************************************************)
(* C1.  Round trip of the framing.                                         *)
(***************************************************************************)

\* C1 as stated: whenever the report just read is the frame built around a
\* payload of 2 to 61 bytes, read_response returns exactly that payload.
C1_RoundTrip2To61 ==
    (JustRead /\ rd.ok /\ Len(rd.bytes) >= 6
       /\ Len(BuiltPayload(rd.bytes)) \in 2..61
       /\ IsFrameFor(rd.bytes, BuiltPayload(rd.bytes)))
    => resp = [kind |-> "some", payload |-> BuiltPayload(rd.bytes)]

\* C1 amended: the same for payloads of 2 to 58 bytes (BufSize - 6: the
\* report-length byte, the header, the length byte and the checksum take 6
\* of the 64 bytes of the buffer).
C1_RoundTrip2To58 ==
    (JustRead /\ rd.ok /\ Len(rd.bytes) >= 6
       /\ Len(BuiltPayload(rd.bytes)) \in 2..(BufSize - 6)
       /\ IsFrameFor(rd.bytes, BuiltPayload(rd.bytes)))
    => resp = [kind |-> "some", payload |-> BuiltPayload(rd.bytes)]

\* A frame around a 58-byte payload with checksum bytes 0xAB 0xCD was read
\* and its payload returned.
C1_Witness ==
    /\ JustRead
    /\ rd.ok
    /\ Len(rd.bytes) = BufSize
    /\ IsFrameFor(rd.bytes, resp.payload)
    /\ SubSeq(rd.bytes, BufSize - 1, BufSize) = <<171, 205>>
    /\ resp.kind = "some"
    /\ Len(resp.payload) = BufSize - 6

(***************************************************************************)
(* C2.  Frame rejection.                                                   *)
(***************************************************************************)

\* C2: no payload is produced from a report that, its first byte dropped,
\* has fewer than 4 bytes, or does not start 0xAB 0xCD, or declares a
\* payloadLength with remainingLength < 3 + payloadLength; a payload is
\* produced only from a report with none of these.
C2_FrameRejection ==
    JustRead =>
       /\ (Rejectable(Received) => resp.kind # "some")
       /\ (resp.kind = "some" =>
             /\ Len(Received) - 1 >= 4
             /\ Received[2] = 171
             /\ Received[3] = 205
             /\ Len(Received) - 1 >= 3 + Received[4])

\* A report with a good header whose declared length exceeds the bytes read
\* was read, and no payload came of it.
C2_Witness ==
    /\ JustRead
    /\ rd.ok
    /\ Len(Received) >= 5
    /\ Received[2] = 171
    /\ Received[3] = 205
    /\ Len(Received) - 1 < 3 + Received[4]
    /\ resp.kind # "some"
    /\ ~got.some

(***************************************************************************)
(* C3.  A malformed report and the next read.                              *)
(***************************************************************************)

\* C3 as stated: once a malformed report has been read, read_response has
\* yielded nothing for the cycle (the loop is at its sleep, with no result),
\* so that the next read can only follow the next write of the command.
C3_NoRetryAtFramingLayer ==
    MalformedJustRead => (pc = "sleep" /\ ~got.some)

\* C3 amended: once a malformed report has been read, read_response has not
\* returned: the loop is about to read the device again, in the same cycle,
\* with nothing yielded and no command written in between (it is the first
\* read after the write, or a later one of the same cycle).
C3_RetryAtFramingLayer ==
    /\ MalformedJustRead => (pc = "read" /\ ~got.some /\ reads >= 1
                             /\ wire = send_command(GET_MEASUREMENT))
    /\ reads >= 2 => wire = send_command(GET_MEASUREMENT)

\* The second read of one cycle, made after a malformed report with no
\* write in between, delivered the payload the cycle decoded.
C3_Witness ==
    /\ reads = 2
    /\ resp.kind = "some"
    /\ pc = "sleep"
    /\ got.some
    /\ dev.items = <<>>
    /\ ~dev.stream

(***************************************************************************)
(* C4.  The end-to-end example.                                            *)
(***************************************************************************)

\* C4 as stated: the example payload decodes to the measurement 12.34 kOhm,
\* "Resistance " + U+03A9, AUTO, no flags.
C4_ExampleDecodes ==
    (resp.kind = "some" /\ resp.payload = ExamplePayload
       /\ consumer \in {"cli", "gui"})
    => got = Some([value |-> Num(FALSE, 1234, -2), unit |-> "kU+03A9",
                   mode |-> "Resistance U+03A9", auto_manual |-> "AUTO",
                   rel |-> "", hold |-> "", minmax |-> ""])

\* C4 amended: on the example payload get_measurement yields no measurement,
\* the display text payload[2..9] being "12.34", NUL, "0"; the loop of
\* src/main.rs prints that text with unit k + U+03A9, mode "Resistance " +
\* U+2126, AUTO and empty rel, hold, minmax; the flag byte is payload[7]
\* (0x00) and the auto/manual byte payload[8] (0x30).
C4_ExampleAsDecoded ==
    (resp.kind = "some" /\ resp.payload = ExamplePayload)
    => /\ parse_display_ascii(resp.payload) = <<49, 50, 46, 51, 52, 0, 48>>
       /\ flags_index(Len(resp.payload)) = 7
       /\ auto_manual_index(Len(resp.payload)) = 8
       /\ IF consumer = "main"
          THEN got = Some([display |-> <<49, 50, 46, 51, 52, 0, 48>>,
                           unit |-> "kU+03A9", mode |-> "Resistance U+2126",
                           auto_manual |-> "AUTO", rel |-> "", hold |-> "",
                           minmax |-> ""])
          ELSE /\ got = None
               /\ pc \in {"sleep", "send"}
               /\ values = <<>>
               /\ latest = InitialMeasurement

\* run_cli has read the example payload and ended the cycle with nothing.
C4_Witness ==
    /\ resp.kind = "some"
    /\ resp.payload = ExamplePayload
    /\ consumer = "cli"
    /\ pc = "sleep"
    /\ ~got.some
    /\ stdout.last.kind = "header"

(***************************************************************************)
(* C5.  The positions of the flag byte and the auto/manual byte.           *)
(***************************************************************************)

\* The decoder made output of the payload last read: a printed line in
\* src/main.rs, a measurement in src/ut61eplus.rs.
DecodedOutput == resp.kind = "some" /\ got.some /\ consumer # "sim"

\* The positions read are two different indices, both past the mode byte,
\* the range byte and the display bytes (indices 0..8).
IndependentPositions(n) ==
    /\ auto_manual_index(n) # flags_index(n)
    /\ auto_manual_index(n) \notin 0..8
    /\ flags_index(n) \notin 0..8

\* MIN comes of 52 in the third-to-last byte and of nothing else, MANUAL of
\* 52 in the second-to-last byte and of nothing else.
FiftyTwoReadInPlace(payload, m) ==
    /\ m.minmax = "MIN" <=> payload[Len(payload) - 2] = 52
    /\ m.auto_manual = "MANUAL" <=> payload[Len(payload) - 1] = 52

\* C5 as stated: for every payload the decoder turns into output, the
\* auto/manual byte and the flag byte are read from two different indices,
\* neither of them the index of the mode, range or display bytes.
C5_IndependentPositionsAlways ==
    DecodedOutput => IndependentPositions(Len(resp.payload))

\* C5 amended: the same for every payload of at least 12 bytes, and there
\* 52 in the flag position gives MIN without MANUAL, 52 in the auto/manual
\* position MANUAL without MIN.
C5_IndependentPositionsFrom12 ==
    (DecodedOutput /\ Len(resp.payload) >= 12)
    => /\ IndependentPositions(Len(resp.payload))
       /\ FiftyTwoReadInPlace(resp.payload, got.v)

\* A 14-byte payload with 52 in the flag position and 48 in the auto/manual
\* position was decoded by get_measurement to MIN and AUTO.
C5_Witness ==
    /\ DecodedOutput
    /\ consumer = "gui"
    /\ Len(resp.payload) = 14
    /\ resp.payload[12] = 52
    /\ resp.payload[13] = 48
    /\ got.v.minmax = "MIN"
    /\ got.v.auto_manual = "AUTO"

(***************************************************************************)
(* C6.  MIN/MAX against REL/HOLD.                                          *)
(***************************************************************************)

\* C6 as stated: some flag byte makes the decoder emit a non-empty minmax
\* together with a non-empty rel or hold.
C6_SomeFlagByteGivesBoth ==
    \E f \in Byte :
       LET p == MeterPayload(6, 49, <<32, 49, 50, 46, 51, 52, 32>>, f, 48)
           m == IF consumer = "main" THEN Some(main_decode_line(p))
                ELSE decode_measurement(p)
       IN /\ m.some
          /\ m.v.minmax # ""
          /\ (m.v.rel # "" \/ m.v.hold # "")

\* C6 amended: no decoded output carries a non-empty minmax together with a
\* non-empty rel or hold; minmax is non-empty exactly for the flag bytes 52
\* and 56, rel exactly for the odd ones, hold exactly for those with bit 1.
C6_NeverBoth ==
    (DecodedOutput /\ Len(resp.payload) >= 3)
    => LET f == resp.payload[Len(resp.payload) - 2]
       IN /\ ~(got.v.minmax # "" /\ (got.v.rel # "" \/ got.v.hold # ""))
          /\ got.v.minmax # "" <=> f \in {52, 56}
          /\ got.v.rel = "REL" <=> f % 2 = 1
          /\ got.v.hold = "HOLD" <=> f \in {g \in Byte : (g \div 2) % 2 = 1}

\* The flag byte 56 was decoded to MAX with rel and hold empty.
C6_Witness ==
    /\ DecodedOutput
    /\ consumer = "gui"
    /\ Len(resp.payload) = 14
    /\ resp.payload[12] = 56
    /\ got.v.minmax = "MAX"
    /\ got.v.rel = ""
    /\ got.v.hold = ""

(***************************************************************************)
(* C7.  The mode table.                                                    *)
(***************************************************************************)

\* The byte values parse_mode gives a label other than "?".
LabelledModes == {m \in Byte : parse_mode(m) # "?"}

\* C7 as stated: exactly 19 byte values have a label, among them 0 "V_AC",
\* 6 "Resistance " + U+03A9, 9 "Capacitance", 18 "Transistor gain " +
\* U+03B2 + " hFE"; every other byte value gives "?".
C7_ModeTable19 ==
    tout.some =>
       /\ Cardinality(LabelledModes) = 19
       /\ tmode = 0 => tout.v.mode = "V_AC"
       /\ tmode = 6 => tout.v.mode = "Resistance U+03A9"
       /\ tmode = 9 => tout.v.mode = "Capacitance"
       /\ tmode = 18 => tout.v.mode = "Transistor gain U+03B2 hFE"

\* C7 amended: exactly 20 byte values have a label: 0..9, 12..18, 20, 24 and
\* 25; 0 gives "V_AC", 6 "Resistance " + U+2126, 9 "Capacitance " + U+1CC13,
\* 18 "Transistor gain " + U+1CC10 + " " + U+03B2 + " hFE", 20 "NCV"; every
\* other byte value gives "?"; parse_mode of src/main.rs gives the same.
C7_ModeTable20 ==
    tout.some =>
       /\ Cardinality(LabelledModes) = 20
       /\ tout.v.mode # "?" <=> tmode \in (0..9) \cup (12..18) \cup {20, 24, 25}
       /\ tmode = 0 => tout.v.mode = "V_AC"
       /\ tmode = 6 => tout.v.mode = "Resistance U+2126"
       /\ tmode = 9 => tout.v.mode = "Capacitance U+1CC13"
       /\ tmode = 18 => tout.v.mode = "Transistor gain U+1CC10 U+03B2 hFE"
       /\ tmode = 20 => tout.v.mode = "NCV"
       /\ tout.v.main_mode = tout.v.mode

\* Mode 20 was looked up and gave "NCV" in both files.
C7_Witness ==
    /\ tout.some
    /\ tmode = 20
    /\ tout.v.mode = "NCV"
    /\ tout.v.main_mode = "NCV"

(***************************************************************************)
(* C8.  The unit table.                                                    *)
(***************************************************************************)

\* C8: for every (mode, range) both parse_unit give the same unit; mode 6
\* gives U+03A9 for 0x30, k + U+03A9 for 0x31-0x33, M + U+03A9 for
\* 0x34-0x36; mode 9 gives nF for 0x30-0x31, U+03BC + F for 0x32-0x34, mF
\* for 0x35-0x36; any other range of these modes, and any mode parse_mode
\* does not know, gives "?".
C8_UnitTable ==
    tout.some =>
       /\ tout.v.main_unit = tout.v.unit
       /\ tmode = 6 =>
            tout.v.unit = (CASE trange = 48 -> "U+03A9"
                             [] trange \in {49, 50, 51} -> "kU+03A9"
                             [] trange \in {52, 53, 54} -> "MU+03A9"
                             [] OTHER -> "?")
       /\ tmode = 9 =>
            tout.v.main_unit = (CASE trange \in {48, 49} -> "nF"
                                  [] trange \in {50, 51, 52} -> "U+03BCF"
                                  [] trange \in {53, 54} -> "mF"
                                  [] OTHER -> "?")
       /\ tout.v.mode = "?" => (tout.v.unit = "?" /\ tout.v.main_unit = "?")
       /\ tout.v.main_mode = "?" => tout.v.main_unit = "?"
       /\ trange \notin 48..55 => tout.v.unit = "?"

\* (6, 0x33) was looked up and gave k + U+03A9 in both files.
C8_Witness ==
    /\ tout.some
    /\ tmode = 6
    /\ trange = 51
    /\ tout.v.unit = "kU+03A9"
    /\ tout.v.main_unit = "kU+03A9"

(***************************************************************************)
(* C9.  The history under the lock.                                        *)
(***************************************************************************)

\* The values that have reached the history: all that the poll thread
\* got, but for the one it holds while it waits for the history lock.
Delivered ==
    IF pc = "lockvalues" THEN SubSeq(arrived, 1, Len(arrived) - 1)
    ELSE arrived

\* C9: whenever the rendering thread holds the history lock, the poll
\* thread is outside its locked block, and the history has at most 200
\* samples and is the last (up to 200) values delivered, in the order they
\* arrived.
C9_HistoryUnderLock ==
    rpc = "plot" =>
       /\ valuesLock = "render"
       /\ pc \notin {"push", "evict", "lockmeas", "writemeas"}
       /\ Len(values) <= HistoryCap
       /\ values = LastN(Delivered, HistoryCap)

\* The rendering thread holds the lock after more than 200 samples arrived:
\* the history is full and its oldest sample is not the first that arrived.
C9_Witness ==
    /\ rpc = "plot"
    /\ consumer = "gui"
    /\ Len(arrived) > HistoryCap
    /\ Len(values) = HistoryCap
    /\ values[1] # arrived[1]
    /\ pc = "sleep"
    /\ values[HistoryCap] = arrived[Len(arrived)]

(***************************************************************************)
(* C10.  A display text that is not a number.                              *)
(***************************************************************************)

\* The display text of the payload last read does not parse as an f32.
DisplayNotNumeric ==
    /\ resp.kind = "some"
    /\ ~parse_f32(parse_display_ascii(resp.payload)).some

\* C10: in every consumer, a payload whose display text does not parse as a
\* number produces no measurement: the cycle has no result, no measurement
\* line has been printed, nothing has been pushed to the history and the
\* published measurement is as it was.
C10_NoMeasurementOnParseFailure ==
    (DisplayNotNumeric /\ reads = 1 /\ Len(dev.items) = 0)
    => /\ ~got.some
       /\ stdout.last.kind = "header"
       /\ values = <<>>
       /\ latest = InitialMeasurement

\* What holds of C10: the same in the loops of src/ut61eplus.rs (run_cli,
\* run_egui_app), where the poll thread reaches the history only with a
\* parsed value in hand.
C10_InLibraryLoops ==
    /\ consumer # "main" => C10_NoMeasurementOnParseFailure
    /\ (consumer = "gui" /\ pc \in {"lockvalues", "push", "evict", "lockmeas",
                                      "writemeas"})
         => (got.some /\ ~DisplayNotNumeric)

(***************************************************************************)
(* C11.  The poll loop runs for the process lifetime.                      *)
(***************************************************************************)

\* C11: no outcome of a poll cycle ends the poll loop: the loop (of
\* src/main.rs, of run_cli, of the poll thread of run_egui_app) has neither
\* returned from its function nor panicked, and a failed write of the
\* command has led to the sleep that ends the cycle with no result.
C11_PollLoopNeverEnds ==
    /\ pc \notin {"exited", "panicked"}
    /\ (consumer # "sim" /\ wire = <<>> /\ pc # "send")
         => (pc = "sleep" /\ ~got.some)

\* What holds of C11: the loop ends by a return only in src/main.rs (the
\* `?` on send_command), never in the loops of src/ut61eplus.rs, whose
\* failed write ends the cycle with nothing; and a loop that panicked did so
\* in the slice of read_response (C12).
C11_InLibraryLoops ==
    /\ pc = "exited" => consumer = "main"
    /\ pc = "panicked" => resp.kind = "panic"
    /\ (consumer \in {"cli", "gui"} /\ wire = <<>> /\ pc # "send")
         => (pc = "sleep" /\ ~got.some)

(***************************************************************************)
(* C12.  Frame decoding without a panic.                                   *)
(***************************************************************************)

\* C12: a report of 1 to 64 bytes is either discarded or answered with the
\* bytes [3 .. 3+payloadLength-2) of the buffer after its first byte, the
\* slice bounds being in order and inside the bytes read: 3 <=
\* 3+payloadLength-2 <= number of bytes after the first.
C12_FrameDecodingPanicFree ==
    (JustRead /\ rd.ok /\ Len(rd.bytes) \in 1..BufSize)
    => LET rest == SubSeq(Received, 2, Len(Received))
       IN \/ resp.kind = "continue"
          \/ /\ resp.kind = "some"
             /\ 3 <= 3 + rest[3] - 2
             /\ 3 + rest[3] - 2 <= Len(rest)
             /\ resp.payload = [i \in 1..(rest[3] - 2) |-> rest[3 + i]]

\* What holds of C12: the same for every report but those with a valid
\* header, at least 4 bytes after the first, and a declared payloadLength
\* of 0 or 1, on which the slice has its start after its end and
\* read_response panics.
C12_PanicOnlyBelowLength2 ==
    (JustRead /\ rd.ok /\ Len(rd.bytes) \in 1..BufSize)
    => LET rest == SubSeq(Received, 2, Len(Received))
       IN IF Len(rest) > 3 /\ rest[1] = 171 /\ rest[2] = 205
             /\ rest[3] \in {0, 1}
          THEN resp.kind = "panic" /\ pc = "panicked"
          ELSE C12_FrameDecodingPanicFree

=============================================================================
